---- MODULE Spec2Model ----
(***************************************************************************)
(* pingas: a Jinglepings pinger (src/src/main.rs).                         *)
(*                                                                         *)
(* main opens and resizes an image, creates a Pinger, builds one ping      *)
(* stream per pixel of the resized image (build_stream / build_address),   *)
(* and spawns one task per stream on the tokio runtime.  Each task waits   *)
(* for its Delay and then drives its ping stream with for_each.            *)
(***************************************************************************)
EXTENDS Integers, Sequences, FiniteSets, TLC

(* ------------------------------------------------------------------ *)
(* Bounds of the model                                                 *)
(* ------------------------------------------------------------------ *)
\* the resized image holds at most MaxPixels pixels
MaxPixels == 3
\* echo requests sent by all tasks together
MaxSends == 2
\* the clock stops at MaxTime milliseconds
MaxTime == 1
\* a resized image of one colour holds at most MaxSolidPixels pixels
MaxSolidPixels == 5

(* ------------------------------------------------------------------ *)
(* Program constants                                                   *)
(* ------------------------------------------------------------------ *)
\* u16 has 2^16 values
U16 == 65536
\* Duration::from_millis(stream_id as u64 / 4)
StaggerGroup == 4
\* the fixed groups handed to Ipv6Addr::new: 0x2001, 0x610, 0x1908, 0xa000
Prefix0 == 8193
Prefix1 == 1552
Prefix2 == 6408
Prefix3 == 40960

(* ------------------------------------------------------------------ *)
(* Inputs                                                              *)
(* ------------------------------------------------------------------ *)
Rgba(r, g, b, a) == [r |-> r, g |-> g, b |-> b, a |-> a]

\* pixel values the decoded and resized image may hold
Palette == {Rgba(1, 2, 3, 0), Rgba(255, 0, 128, 255)}

\* the command line's x and y (u16) and rate (u64, milliseconds)
Origins == {<<10, 20>>, <<65535, 65535>>}
Rates == {1}

\* encoder harness: the u16 and u8 arguments build_address is called with
Coords == {0, 10, 20, 65535}
Channels == {0, 128, 255}
EncInputs == Coords \X Coords \X Channels \X Channels \X Channels \X Channels

VARIABLES
    phase,            \* where main is: start, opened, spawning, running, panicked, exited
    exit_code,        \* the process's exit status once phase = "exited", else -1
    stderr,           \* the lines printed with eprintln! by an error handler
    rate,
    origin_x,
    origin_y,
    image,            \* the resized RGBA image: width, height, pixels in row-major order
    streams,          \* the Vec collected from enumerate_pixels().map(build_stream)
    next_id,          \* the spawn loop's next stream_id
    workers,          \* the spawned tasks, by stream_id
    now,              \* the clock (Instant::now()), in milliseconds
    probed,           \* the addresses an echo request was sent to
    enc_in,           \* encoder harness: the arguments of build_address
    enc_out,          \* encoder harness: the last result of build_address
    enc_prev          \* encoder harness: the result of the call before

sched_vars == <<phase, exit_code, stderr, rate, origin_x, origin_y,
                image, streams, next_id, workers, now, probed>>
enc_vars == <<enc_in, enc_out, enc_prev>>
vars == <<phase, exit_code, stderr, rate, origin_x, origin_y,
          image, streams, next_id, workers, now, probed, enc_in, enc_out, enc_prev>>

(* ------------------------------------------------------------------ *)
(* build_address                                                       *)
(* ------------------------------------------------------------------ *)
RECURSIVE BitOr(_, _)
\* a | b on non-negative integers
BitOr(a, b) ==
    IF a = 0 THEN b
    ELSE IF b = 0 THEN a
    ELSE (IF (a % 2 = 1) \/ (b % 2 = 1) THEN 1 ELSE 0) + 2 * BitOr(a \div 2, b \div 2)

\* (v as u16) << 8
Shl8(v) == (v * 256) % U16

\* Ipv6Addr::new(a, b, c, d, e, f, g, h): the eight 16-bit groups, high to low
Ipv6AddrNew(a, b, c, d, e, f, g, h) == <<a, b, c, d, e, f, g, h>>

\* build_address with the bytes of the last group swapped
build_address_swapped(x, y, r, g, b, a) ==
    Ipv6AddrNew(Prefix0, Prefix1, Prefix2, Prefix3,
                x, y,
                BitOr(Shl8(b), g),
                BitOr(Shl8(a), r))

\* build_address without the shifts: both bytes of a group land in its low byte
build_address_unshifted(x, y, r, g, b, a) ==
    Ipv6AddrNew(Prefix0, Prefix1, Prefix2, Prefix3,
                x, y,
                BitOr(b, g),
                BitOr(r, a))

\* build_address with the red channel leaking into the fourth group
build_address_leaky(x, y, r, g, b, a) ==
    Ipv6AddrNew(Prefix0, Prefix1, Prefix2, BitOr(Prefix3, r),
                x, y,
                BitOr(Shl8(b), g),
                BitOr(Shl8(r), a))

build_address(x, y, r, g, b, a) ==
    Ipv6AddrNew(Prefix0, Prefix1, Prefix2, Prefix3,
                x, y,
                BitOr(Shl8(b), g),
                BitOr(Shl8(r), a))

(* ------------------------------------------------------------------ *)
(* build_stream                                                        *)
(* ------------------------------------------------------------------ *)
\* pinger.chain(addr).timeout(rate).stream(): an endless stream of pings to addr
build_stream(rt, x, y, r, g, b, a) ==
    [addr |-> build_address(x, y, r, g, b, a), timeout |-> rt]

(* ------------------------------------------------------------------ *)
(* The image and the streams built from it                             *)
(* ------------------------------------------------------------------ *)
NoImage == [width |-> 0, height |-> 0, px |-> <<>>]

\* what image::open(..).resize(..).to_rgba() may return
Images ==
    UNION {[width : {d[1]}, height : {d[2]}, px : [1..(d[1] * d[2]) -> Palette]] :
           d \in {e \in (1..MaxPixels) \X (1..MaxPixels) : e[1] * e[2] <= MaxPixels}}

\* enumerate_pixels(): the k-th item (k from 1) is (x, y, pixel), rows first
PixelX(img, k) == (k - 1) % img.width
PixelY(img, k) == (k - 1) \div img.width
PixelCount(img) == img.width * img.height

\* `v as u16` of a u32
AsU16(v) == v % U16
\* u16 + u16 without overflow checks
WrappingAdd(a, b) == (a + b) % U16
\* u16 + u16 overflows
AddOverflows(a, b) == a + b >= U16

\* some `origin_x + x as u16` or `origin_y + y as u16` of the closure overflows
AnyOverflow(img, ox, oy) ==
    \E k \in 1..PixelCount(img) :
        \/ AddOverflows(ox, AsU16(PixelX(img, k)))
        \/ AddOverflows(oy, AsU16(PixelY(img, k)))

\* CollectStreams with the column added to origin_y as well
CollectStreams_xForY(img, rt, ox, oy) ==
    [k \in 1..PixelCount(img) |->
        build_stream(rt,
                     WrappingAdd(ox, AsU16(PixelX(img, k))),
                     WrappingAdd(oy, AsU16(PixelX(img, k))),
                     img.px[k].r, img.px[k].g, img.px[k].b, img.px[k].a)]

\* CollectStreams walking the image column by column
CollectStreams_columnsFirst(img, rt, ox, oy) ==
    [k \in 1..PixelCount(img) |->
        LET x == (k - 1) \div img.height
            y == (k - 1) % img.height
            p == img.px[y * img.width + x + 1]
        IN build_stream(rt, WrappingAdd(ox, AsU16(x)), WrappingAdd(oy, AsU16(y)),
                        p.r, p.g, p.b, p.a)]

\* CollectStreams with one stream per row, for the row's first pixel
CollectStreams_perRow(img, rt, ox, oy) ==
    [row \in 1..img.height |->
        LET p == img.px[(row - 1) * img.width + 1]
        IN build_stream(rt, WrappingAdd(ox, 0), WrappingAdd(oy, AsU16(row - 1)),
                        p.r, p.g, p.b, p.a)]

\* image.enumerate_pixels().map(|(x, y, &Rgba([r, g, b, a]))| build_stream(..)).collect()
CollectStreams(img, rt, ox, oy) ==
    [k \in 1..PixelCount(img) |->
        build_stream(rt,
                     WrappingAdd(ox, AsU16(PixelX(img, k))),
                     WrappingAdd(oy, AsU16(PixelY(img, k))),
                     img.px[k].r, img.px[k].g, img.px[k].b, img.px[k].a)]

(* ------------------------------------------------------------------ *)
(* Initial state                                                       *)
(* ------------------------------------------------------------------ *)
NoAddr == <<>>
EncIdle == /\ enc_in = <<>>
           /\ enc_out = NoAddr
           /\ enc_prev = NoAddr

\* main has parsed its arguments
MainInit ==
    /\ phase = "start"
    /\ exit_code = -1
    /\ stderr = {}
    /\ rate \in Rates
    /\ \E o \in Origins : origin_x = o[1] /\ origin_y = o[2]
    /\ image = NoImage
    /\ streams = <<>>
    /\ next_id = 0
    /\ workers = <<>>
    /\ now = 0
    /\ probed = {}

Init == MainInit /\ EncIdle

(* ------------------------------------------------------------------ *)
(* main up to tokio::run                                               *)
(* ------------------------------------------------------------------ *)
Line(msg, id) == [msg |-> msg, id |-> id]

\* image::open fails: eprintln!("Can't open file"), exit(1)
OpenImageFail ==
    /\ phase = "start"
    /\ stderr' = stderr \cup {Line("Can't open file", -1)}
    /\ phase' = "exited"
    /\ exit_code' = 1
    /\ UNCHANGED <<rate, origin_x, origin_y, image, streams,
                   next_id, workers, now, probed>>
    /\ UNCHANGED enc_vars

\* image::open succeeds; the image is resized and converted to RGBA
OpenImage ==
    /\ phase = "start"
    /\ image' \in Images
    /\ phase' = "opened"
    /\ UNCHANGED <<exit_code, stderr, rate, origin_x, origin_y,
                   streams, next_id, workers, now, probed>>
    /\ UNCHANGED enc_vars

\* PingerError without the exit(1): the future resolves and main returns
PingerError_NoExit ==
    /\ phase = "opened"
    /\ stderr' = stderr \cup {Line("Error", -1)}
    /\ phase' = "exited"
    /\ exit_code' = 0
    /\ UNCHANGED <<rate, origin_x, origin_y, image, streams,
                   next_id, workers, now, probed>>
    /\ UNCHANGED enc_vars

\* Pinger::new() resolves to an error: eprintln!("Error: {}"), exit(1)
PingerError ==
    /\ phase = "opened"
    /\ stderr' = stderr \cup {Line("Error", -1)}
    /\ phase' = "exited"
    /\ exit_code' = 1
    /\ UNCHANGED <<rate, origin_x, origin_y, image, streams,
                   next_id, workers, now, probed>>
    /\ UNCHANGED enc_vars

\* Pinger::new() resolves to a pinger: the first map closure collects the streams.
\* An overflowing coordinate sum panics inside the closure when the program is
\* built with overflow checks (overflow_checks) and wraps when it is built without.
BuildStreams ==
    /\ phase = "opened"
    /\ \E overflow_checks \in BOOLEAN :
       IF overflow_checks /\ AnyOverflow(image, origin_x, origin_y)
       THEN /\ phase' = "panicked"
            /\ UNCHANGED streams
       ELSE /\ streams' = CollectStreams(image, rate, origin_x, origin_y)
            /\ phase' = IF PixelCount(image) = 0 THEN "running" ELSE "spawning"
    /\ UNCHANGED <<exit_code, stderr, rate, origin_x, origin_y,
                   image, next_id, workers, now, probed>>
    /\ UNCHANGED enc_vars

\* the task that ran the closure is gone; the runtime becomes idle and main returns
PanicExit ==
    /\ phase = "panicked"
    /\ phase' = "exited"
    /\ exit_code' = 0
    /\ UNCHANGED <<stderr, rate, origin_x, origin_y, image,
                   streams, next_id, workers, now, probed>>
    /\ UNCHANGED enc_vars

(* ------------------------------------------------------------------ *)
(* The spawn loop                                                      *)
(* ------------------------------------------------------------------ *)
\* stream_start with one millisecond for every stream
stream_start_perStream(stream_id, t) == t + stream_id

\* Instant::now() + Duration::from_millis(stream_id as u64 / 4)
stream_start(stream_id, t) == t + (stream_id \div StaggerGroup)

\* the task handed to tokio::spawn: Delay::new(stream_start) chained with the stream
NewTask(stream_id, stream, t) ==
    [pc |-> "delay",
     stream |-> stream,
     spawn_instant |-> t,
     stream_start |-> stream_start(stream_id, t),
     sends |-> 0,
     sent_at |-> 0]

\* one iteration of `for (stream_id, stream) in streams.into_iter().enumerate()`
Spawn ==
    /\ phase = "spawning"
    /\ next_id < Len(streams)
    /\ workers' = [i \in 0..next_id |->
                     IF i = next_id THEN NewTask(next_id, streams[next_id + 1], now)
                     ELSE workers[i]]
    /\ next_id' = next_id + 1
    /\ phase' = IF next_id + 1 = Len(streams) THEN "running" ELSE "spawning"
    /\ UNCHANGED <<exit_code, stderr, rate, origin_x, origin_y,
                   image, streams, now, probed>>
    /\ UNCHANGED enc_vars

(* ------------------------------------------------------------------ *)
(* A spawned task                                                      *)
(* ------------------------------------------------------------------ *)
Spawned == DOMAIN workers

RECURSIVE SendsBelow(_, _)
\* the echo requests sent so far by the tasks with a stream_id below n
SendsBelow(ws, n) == IF n = 0 THEN 0 ELSE ws[n - 1].sends + SendsBelow(ws, n - 1)
TotalSends == SendsBelow(workers, next_id)

\* PingChainStream::poll with no ping in flight: the next echo request is sent
SendPing(w, t) == [w EXCEPT !.pc = "pinging", !.sends = @ + 1, !.sent_at = t]

\* the stream yields an item (Ok): for_each's closure returns Ok(()) and the
\* stream is polled again, which sends the next ping
OnItem(w, t) == SendPing(w, t)

\* the stream yields Err: map_err prints the line, for_each resolves to Err(())
\* and the task is complete
OnError(w) == [w EXCEPT !.pc = "done"]

\* DelayElapsed with the stream not chained behind the Delay
DelayElapsed_NoDelay(i) ==
    /\ i \in Spawned
    /\ workers[i].pc = "delay"
    /\ TotalSends < MaxSends
    /\ workers' = [workers EXCEPT ![i] = OnItem(@, now)]
    /\ probed' = probed \cup {workers[i].stream.addr}
    /\ UNCHANGED <<phase, exit_code, stderr, rate, origin_x,
                   origin_y, image, streams, next_id, now>>
    /\ UNCHANGED enc_vars

\* DelayElapsed on an executor that starts the tasks one after the other
DelayElapsed_InOrder(i) ==
    /\ i \in Spawned
    /\ workers[i].pc = "delay"
    /\ now >= workers[i].stream_start
    /\ \A j \in Spawned : j < i => workers[j].sends > 0
    /\ TotalSends < MaxSends
    /\ workers' = [workers EXCEPT ![i] = OnItem(@, now)]
    /\ probed' = probed \cup {workers[i].stream.addr}
    /\ UNCHANGED <<phase, exit_code, stderr, rate, origin_x,
                   origin_y, image, streams, next_id, now>>
    /\ UNCHANGED enc_vars

\* the Delay has elapsed: its item is consumed, the chain moves on to the ping stream
DelayElapsed(i) ==
    /\ i \in Spawned
    /\ workers[i].pc = "delay"
    /\ now >= workers[i].stream_start
    /\ TotalSends < MaxSends
    /\ workers' = [workers EXCEPT ![i] = OnItem(@, now)]
    /\ probed' = probed \cup {workers[i].stream.addr}
    /\ UNCHANGED <<phase, exit_code, stderr, rate, origin_x,
                   origin_y, image, streams, next_id, now>>
    /\ UNCHANGED enc_vars

\* no reply within the timeout: the ping resolves to Ok(None)
PingTimeout(i) ==
    /\ i \in Spawned
    /\ workers[i].pc = "pinging"
    /\ now >= workers[i].sent_at + workers[i].stream.timeout
    /\ TotalSends < MaxSends
    /\ workers' = [workers EXCEPT ![i] = OnItem(@, now)]
    /\ probed' = probed \cup {workers[i].stream.addr}
    /\ UNCHANGED <<phase, exit_code, stderr, rate, origin_x,
                   origin_y, image, streams, next_id, now>>
    /\ UNCHANGED enc_vars

\* an echo reply arrives: the ping resolves to Ok(Some(rtt))
PingReply(i) ==
    /\ i \in Spawned
    /\ workers[i].pc = "pinging"
    /\ TotalSends < MaxSends
    /\ workers' = [workers EXCEPT ![i] = OnItem(@, now)]
    /\ probed' = probed \cup {workers[i].stream.addr}
    /\ UNCHANGED <<phase, exit_code, stderr, rate, origin_x,
                   origin_y, image, streams, next_id, now>>
    /\ UNCHANGED enc_vars

\* the ping resolves to Err (the send failed): eprintln!("{} :: {}", stream_id, err)
PingError(i) ==
    /\ i \in Spawned
    /\ workers[i].pc = "pinging"
    /\ stderr' = stderr \cup {Line("ping", i)}
    /\ workers' = [workers EXCEPT ![i] = OnError(@)]
    /\ UNCHANGED <<phase, exit_code, rate, origin_x, origin_y,
                   image, streams, next_id, now, probed>>
    /\ UNCHANGED enc_vars

\* time passes
Tick ==
    /\ phase \in {"spawning", "running"}
    /\ now < MaxTime
    /\ now' = now + 1
    /\ UNCHANGED <<phase, exit_code, stderr, rate, origin_x,
                   origin_y, image, streams, next_id, workers, probed>>
    /\ UNCHANGED enc_vars

\* tokio::run returns once every spawned task is complete, and main returns
RuntimeIdle ==
    /\ phase = "running"
    /\ \A i \in Spawned : workers[i].pc = "done"
    /\ phase' = "exited"
    /\ exit_code' = 0
    /\ UNCHANGED <<stderr, rate, origin_x, origin_y, image,
                   streams, next_id, workers, now, probed>>
    /\ UNCHANGED enc_vars

Next ==
    \/ OpenImageFail
    \/ OpenImage
    \/ PingerError
    \/ BuildStreams
    \/ PanicExit
    \/ Spawn
    \/ \E i \in 0..(MaxPixels - 1) : DelayElapsed(i)
    \/ \E i \in 0..(MaxPixels - 1) : PingTimeout(i)
    \/ \E i \in 0..(MaxPixels - 1) : PingReply(i)
    \/ \E i \in 0..(MaxPixels - 1) : PingError(i)
    \/ Tick
    \/ RuntimeIdle

Spec == Init /\ [][Next]_vars

(* ------------------------------------------------------------------ *)
(* main on images of one colour, which may hold more pixels            *)
(* ------------------------------------------------------------------ *)
\* resized images all of whose pixels are opaque and of the same colour
SolidImages ==
    UNION {[width : {d[1]}, height : {d[2]},
            px : [1..(d[1] * d[2]) -> {Rgba(255, 0, 128, 255)}]] :
           d \in {e \in (1..MaxSolidPixels) \X (1..MaxSolidPixels) :
                    e[1] * e[2] <= MaxSolidPixels}}

\* image::open succeeds; the image is resized and converted to RGBA
OpenSolidImage ==
    /\ phase = "start"
    /\ image' \in SolidImages
    /\ phase' = "opened"
    /\ UNCHANGED <<exit_code, stderr, rate, origin_x, origin_y,
                   streams, next_id, workers, now, probed>>
    /\ UNCHANGED enc_vars

NextSolid ==
    \/ OpenImageFail
    \/ OpenSolidImage
    \/ PingerError
    \/ BuildStreams
    \/ PanicExit
    \/ Spawn
    \/ \E i \in 0..(MaxSolidPixels - 1) : DelayElapsed(i)
    \/ \E i \in 0..(MaxSolidPixels - 1) : PingTimeout(i)
    \/ \E i \in 0..(MaxSolidPixels - 1) : PingReply(i)
    \/ \E i \in 0..(MaxSolidPixels - 1) : PingError(i)
    \/ Tick
    \/ RuntimeIdle

SpecSolid == Init /\ [][NextSolid]_vars

(* ------------------------------------------------------------------ *)
(* build_address on its own: every argument tuple, called twice        *)
(* ------------------------------------------------------------------ *)
InitEnc ==
    /\ MainInit
    /\ enc_in \in EncInputs
    /\ enc_out = NoAddr
    /\ enc_prev = NoAddr

\* a call of build_address with the arguments enc_in
Encode ==
    /\ enc_prev = NoAddr
    /\ enc_out' = build_address(enc_in[1], enc_in[2], enc_in[3], enc_in[4],
                                enc_in[5], enc_in[6])
    /\ enc_prev' = enc_out
    /\ UNCHANGED enc_in
    /\ UNCHANGED sched_vars

NextEnc == Encode

SpecEnc == InitEnc /\ [][NextEnc]_vars

(* ------------------------------------------------------------------ *)
(* Properties                                                          *)
(* ------------------------------------------------------------------ *)

\* C1: build_address(x, y, r, g, b, a) is the address whose eight 16-bit groups
\* are 0x2001, 0x0610, 0x1908, 0xa000, x, y, (b << 8) | g, (r << 8) | a; for
\* (10, 20, 255, 0, 128, 255) that is 2001:0610:1908:a000:000a:0014:8000:ffff.
C1_AddressLayout ==
    enc_out # NoAddr =>
        LET x == enc_in[1]  y == enc_in[2]  r == enc_in[3]
            g == enc_in[4]  b == enc_in[5]  a == enc_in[6]
        IN /\ enc_out = <<8193, 1552, 6408, 40960, x, y, 256 * b + g, 256 * r + a>>
           /\ enc_in = <<10, 20, 255, 0, 128, 255>> =>
                  enc_out = <<8193, 1552, 6408, 40960, 10, 20, 32768, 65535>>

\* the spec's example has been encoded
C1_Witness ==
    /\ enc_in = <<10, 20, 255, 0, 128, 255>>
    /\ enc_out = <<8193, 1552, 6408, 40960, 10, 20, 32768, 65535>>

\* C9: every result of build_address has eight groups of which the first four are
\* 2001:0610:1908:a000 whatever the arguments, and a second call with the same
\* arguments returns the same address as the first.
C9_PrefixAndDeterminism ==
    enc_out # NoAddr =>
        /\ Len(enc_out) = 8
        /\ SubSeq(enc_out, 1, 4) = <<8193, 1552, 6408, 40960>>
        /\ enc_prev # NoAddr => enc_prev = enc_out

\* build_address has been called twice with all-ones arguments
C9_Witness ==
    /\ enc_in = <<65535, 65535, 255, 255, 255, 255>>
    /\ enc_prev # NoAddr
    /\ enc_out # NoAddr


\* the address main computes for the k-th pixel of enumerate_pixels()
PixelAddr(k) ==
    build_address(WrappingAdd(origin_x, AsU16(PixelX(image, k))),
                  WrappingAdd(origin_y, AsU16(PixelY(image, k))),
                  image.px[k].r, image.px[k].g, image.px[k].b, image.px[k].a)

Pixels == 1..PixelCount(image)
Visible(k) == image.px[k].a > 0
StreamsBuilt == Len(streams) > 0
AllSpawned == StreamsBuilt /\ next_id = Len(streams)
PingLogged(i) == Line("ping", i) \in stderr

\* C2: no task is created for, and no echo request is sent to, the address of a
\* pixel of the resized image whose alpha is 0.
C2_NoProbeForTransparent ==
    \A k \in Pixels :
        ~Visible(k) =>
            /\ PixelAddr(k) \notin probed
            /\ \A i \in Spawned : workers[i].stream.addr # PixelAddr(k)

\* C3: once the streams are built, the address of every pixel with alpha > 0 is
\* the address of exactly one stream, and once the spawn loop has finished it is
\* held by exactly one task; a task holds one address.
C3_VisibleCoveredOnce ==
    StreamsBuilt =>
        \A k \in Pixels :
            Visible(k) =>
                LET addr == PixelAddr(k)
                IN /\ Cardinality({j \in 1..Len(streams) : streams[j].addr = addr}) = 1
                   /\ AllSpawned =>
                         Cardinality({i \in Spawned : workers[i].stream.addr = addr}) = 1

\* a three-pixel image with a visible and a transparent pixel is fully spawned
\* and a visible pixel has been pinged
C3_Witness ==
    /\ AllSpawned
    /\ PixelCount(image) = 3
    /\ \E k \in Pixels : Visible(k) /\ PixelAddr(k) \in probed
    /\ \E k \in Pixels : ~Visible(k)

\* C4: whatever the outcome of a ping (reply, timeout, error), the task that
\* observes it stays in its loop: no step takes a pinging task out of "pinging".
C4_FailureKeepsWorker ==
    [][\A i \in Spawned :
          workers[i].pc = "pinging" => workers'[i].pc = "pinging"]_vars

\* C5: no task ever completes.
C5_NoWorkerTerminates ==
    \A i \in Spawned : workers[i].pc # "done"

\* C6: if every pixel of the resized image has alpha 0, no stream is built, no
\* task is spawned and no echo request is sent.
C6_AllTransparentNoWork ==
    (PixelCount(image) > 0 /\ \A k \in Pixels : ~Visible(k)) =>
        /\ streams = <<>>
        /\ Spawned = {}
        /\ probed = {}

\* C7: the step in which task i observes a ping error changes no other task and
\* does not end the process, and the process never ends after a ping error.
C7_ErrorContained ==
    /\ [][\A i \in Spawned :
            (~PingLogged(i) /\ PingLogged(i)') =>
                /\ \A j \in Spawned \ {i} : workers'[j] = workers[j]
                /\ phase' = phase]_vars
    /\ []((\E i \in Spawned : PingLogged(i)) => phase # "exited")

\* C8: when image::open or Pinger::new() has failed, the process has exited with
\* a non-zero status, no task was spawned and no echo request was sent.
C8_ConfigFailureFatal ==
    (Line("Can't open file", -1) \in stderr \/ Line("Error", -1) \in stderr) =>
        /\ phase = "exited"
        /\ exit_code # 0
        /\ streams = <<>>
        /\ Spawned = {}
        /\ probed = {}

\* Pinger::new() failed after the image was opened
C8_Witness ==
    /\ Line("Error", -1) \in stderr
    /\ image # NoImage
    /\ phase = "exited"

\* the delay main adds to the clock reading it takes for task i
StaggerDelay(i) == workers[i].stream_start - workers[i].spawn_instant

\* C11 as stated: no task sends before its start instant, and two tasks with
\* different indices have different stagger delays and different start instants.
C11_StaggerPerIndex ==
    \A i \in Spawned :
        /\ workers[i].sends > 0 => workers[i].sent_at >= workers[i].stream_start
        /\ \A j \in Spawned \ {i} :
              /\ StaggerDelay(i) # StaggerDelay(j)
              /\ workers[i].stream_start # workers[j].stream_start

\* C11 as amended: no task sends before the clock reading taken for it plus one
\* millisecond per full block of four indices below it (so not before that many
\* milliseconds after the start of the scheduler, instant 0); two tasks have
\* different stagger delays exactly when their indices lie in different blocks
\* of four, and tasks of different blocks whose clock readings agree start at
\* different instants.
C11_StaggerPerBlock ==
    \A i \in Spawned :
        /\ workers[i].sends > 0 =>
              /\ workers[i].sent_at >= workers[i].spawn_instant + (i \div 4)
              /\ workers[i].sent_at >= i \div 4
        /\ \A j \in Spawned :
              /\ (StaggerDelay(i) # StaggerDelay(j)) <=> ((i \div 4) # (j \div 4))
              /\ ((i \div 4) # (j \div 4)
                     /\ workers[i].spawn_instant = workers[j].spawn_instant) =>
                    workers[i].stream_start # workers[j].stream_start

\* the fifth task has sent a ping, and the first two tasks start at the same instant
C11_Witness ==
    /\ 4 \in Spawned
    /\ workers[4].sends > 0
    /\ workers[0].stream_start = workers[1].stream_start

\* C17: streams, and so task indices, follow the image row by row from the top and
\* within a row from the left: the stream at position y * width + x carries the
\* canvas coordinates of pixel (x, y), so of two pixels the one in the higher row,
\* or further left in the same row, has the lower index; task i holds stream i.
C17_ImageOrder ==
    StreamsBuilt =>
        /\ \A i \in Spawned : workers[i].stream = streams[i + 1]
        /\ \A y1, y2 \in 0..(image.height - 1) :
             \A x1, x2 \in 0..(image.width - 1) :
                LET i == y1 * image.width + x1 + 1
                    j == y2 * image.width + x2 + 1
                IN /\ streams[i].addr[5] = WrappingAdd(origin_x, x1)
                   /\ streams[i].addr[6] = WrappingAdd(origin_y, y1)
                   /\ (y1 < y2 \/ (y1 = y2 /\ x1 < x2)) => i < j

\* every task of an image of two rows and two columns is spawned
C17_Witness ==
    /\ AllSpawned
    /\ image.width = 2
    /\ image.height = 2

\* C18: the start instant of task i is the clock reading taken for it plus q
\* milliseconds, where q is the number of full blocks of four indices below i; the
\* delay is the same within a block, one millisecond more in the next block, and
\* never decreases with the index.
C18_StartDelayPerFour ==
    \A i \in Spawned :
        /\ \E q \in 0..i :
              /\ 4 * q <= i
              /\ i < 4 * q + 4
              /\ workers[i].stream_start = workers[i].spawn_instant + q
        /\ \A j \in Spawned :
              /\ i <= j => StaggerDelay(i) <= StaggerDelay(j)
              /\ j = i + 4 => StaggerDelay(j) = StaggerDelay(i) + 1

\* the fourth task starts with no delay and the fifth one millisecond late
C18_Witness ==
    /\ 4 \in Spawned
    /\ StaggerDelay(3) = 0
    /\ StaggerDelay(4) = 1

\* C12: every pixel with alpha > 0 keeps a task that goes on pinging its address:
\* once the spawn loop has finished, some task that is not complete holds it.
C12_VisibleKeepsLiveTask ==
    AllSpawned =>
        \A k \in Pixels :
            Visible(k) =>
                LET addr == PixelAddr(k)
                IN \E i \in Spawned :
                      /\ workers[i].stream.addr = addr
                      /\ workers[i].pc # "done"

\* C13: a task that has sent a ping sends its next one no sooner than rate
\* milliseconds later, whatever made it send.
C13_PacedByRate ==
    [][\A i \in Spawned :
          (workers[i].sends > 0 /\ workers'[i].sends = workers[i].sends + 1) =>
              workers'[i].sent_at >= workers[i].sent_at + rate]_vars

\* C14 as stated: there are never more tasks than the resized image has rows.
C14_WorkersAtMostRows ==
    Cardinality(Spawned) <= image.height

\* C14 as amended: there are never more tasks than the resized image has pixels,
\* and once the spawn loop has finished there is one task for every pixel.
C14_WorkersPerPixel ==
    /\ Cardinality(Spawned) <= image.width * image.height
    /\ AllSpawned => Cardinality(Spawned) = image.width * image.height

\* the spawn loop has finished with more tasks than the image has rows
C14_Witness ==
    /\ AllSpawned
    /\ image.width > 1
    /\ Cardinality(Spawned) > image.height

\* C15: a task whose Delay has elapsed, or whose ping has timed out, can take its
\* next send step whatever the other tasks are doing (as long as the model's
\* budget of echo requests is not used up).
C15_NoWorkerBlocks ==
    \A i \in Spawned :
        TotalSends < MaxSends =>
            /\ (workers[i].pc = "delay" /\ now >= workers[i].stream_start) =>
                  ENABLED DelayElapsed(i)
            /\ (workers[i].pc = "pinging"
                   /\ now >= workers[i].sent_at + workers[i].stream.timeout) =>
                  ENABLED PingTimeout(i)

\* a task can take its first send step while an earlier task is complete after
\* an error and a later one has not sent yet
C15_Witness ==
    \E i, j, k \in Spawned :
        /\ j < i
        /\ i < k
        /\ workers[j].pc = "done"
        /\ workers[k].pc = "delay"
        /\ workers[i].pc = "delay"
        /\ now >= workers[i].stream_start
        /\ TotalSends < MaxSends

\* C16: the x and y groups of the address built for the pixel at (lx, ly) are the
\* integers origin_x + lx and origin_y + ly.
C16_CanvasSum ==
    \A j \in 1..Len(streams) :
        /\ streams[j].addr[5] = origin_x + PixelX(image, j)
        /\ streams[j].addr[6] = origin_y + PixelY(image, j)

\* the arguments a result of build_address decodes to
Decode(addr) ==
    <<addr[5], addr[6], addr[8] \div 256, addr[7] % 256, addr[7] \div 256, addr[8] % 256>>

\* C19: the arguments can be read back from the last four groups of the result
\* (so no two argument tuples share an address), and changing any one argument
\* changes the address.
C19_Injective ==
    enc_out # NoAddr =>
        /\ Decode(enc_out) = enc_in
        /\ \A p \in 1..6 :
              \A v \in (IF p <= 2 THEN Coords ELSE Channels) :
                 v # enc_in[p] =>
                    LET o == [enc_in EXCEPT ![p] = v]
                    IN build_address(o[1], o[2], o[3], o[4], o[5], o[6]) # enc_out

\* an address whose two colour groups each mix a zero and a non-zero byte
C19_Witness ==
    /\ enc_in = <<0, 65535, 128, 0, 255, 0>>
    /\ enc_out # NoAddr

====
